---- MODULE Spec2Model ----
(***************************************************************************)
(* AtacWorks main.py: the multi-process worker group (main, train_worker,  *)
(* infer_worker), the training loop's checkpoint bookkeeping, and the      *)
(* inference writer (queue drain, save_to_bedgraph, pairwise combiner).    *)
(*                                                                         *)
(* Scores are integers in hundredths (150 stands for 1.5).  Python lists   *)
(* are sequences; a 0-based list index i is position i + 1.  Python None   *)
(* is the value None below; every optional value of the program is >= 0.   *)
(***************************************************************************)
EXTENDS Integers, Sequences, FiniteSets, TLC

\* ------------------------------------------------------------------ bounds
MaxGpus == 2
MaxData == 3
MainData == 2
MaxFiles == 6
MaxEpochs == 3
MaxFreq == 2
MaxMetric == 1

None == -1
ScoreUnit == 100
NameWidth == 5
NumCpus == 2

\* ----------------------------------------------------------- pure helpers
RECURSIVE Pow10(_)
Pow10(n) == IF n <= 0 THEN 1 ELSE 10 * Pow10(n - 1)

RECURSIVE Digits(_)
Digits(n) == IF n < 10 THEN <<n>> ELSE Digits(n \div 10) \o <<n % 10>>

RECURSIVE ZeroPad(_, _)
ZeroPad(s, w) == IF Len(s) >= w THEN s ELSE ZeroPad(<<0>> \o s, w)

\* "{0:05}".format(n): the decimal digits of n, zero-padded to five places
TempName(n) == ZeroPad(Digits(n), NameWidth)

\* Python string comparison, on digit strings
RECURSIVE StrLess(_, _)
StrLess(a, b) ==
    IF a = <<>> THEN b # <<>>
    ELSE IF b = <<>> THEN FALSE
    ELSE IF Head(a) # Head(b) THEN Head(a) < Head(b)
    ELSE StrLess(Tail(a), Tail(b))

\* sorted(glob.glob(dir/*)): the file numbers of a directory, by name
RECURSIVE SortedByName(_)
SortedByName(S) ==
    IF S = {} THEN <<>>
    ELSE LET m == CHOOSE x \in S :
                    \A y \in S \ {x} : StrLess(TempName(x), TempName(y))
         IN  <<m>> \o SortedByName(S \ {m})

RECURSIVE SumSeq(_)
SumSeq(s) == IF s = <<>> THEN 0 ELSE Head(s) + SumSeq(Tail(s))

RECURSIVE ConcatAll(_, _)
ConcatAll(names, content) ==
    IF names = <<>> THEN <<>>
    ELSE content[Head(names)] \o ConcatAll(Tail(names), content)

CeilDiv(a, b) == (a + b - 1) \div b

Min(a, b) == IF a < b THEN a ELSE b

\* np.around(x, decimals=d): round half to even, at d decimals
Around(x, d) ==
    LET step == Pow10(2 - d)
        q    == x \div step
        r    == x % step
    IN  IF 2 * r < step THEN q * step
        ELSE IF 2 * r > step THEN (q + 1) * step
        ELSE IF q % 2 = 0 THEN q * step ELSE (q + 1) * step

RoundScores(vec, rnd) ==
    IF rnd = None THEN vec ELSE [p \in DOMAIN vec |-> Around(vec[p], rnd)]

\* (scores > threshold).astype(int), applied to channel 1 only
ThresholdScores(vec, threshold, channel) ==
    IF threshold # None /\ channel = 1
    THEN [p \in DOMAIN vec |-> IF vec[p] > threshold THEN ScoreUnit ELSE 0]
    ELSE vec

\* scores = batch[start:end, :, channel], rounded and thresholded
SliceScores(it, start, end, channel, rnd, threshold) ==
    [i \in 1..(end - start) |->
        ThresholdScores(RoundScores(it.rows[start + i].s[channel + 1], rnd),
                        threshold, channel)]

AnyPositive(scores) ==
    \E i \in DOMAIN scores : \E p \in DOMAIN scores[i] : scores[i][p] > 0

\* batch_intervals.loc[scores.sum(axis=1) > 0, :]
KeptRows(scores) == {i \in DOMAIN scores : SumSeq(scores[i]) > 0}

\* intervals_to_bg: the kept rows in batch order, each joined to its interval
\* (its key) and carrying its scores
RECURSIVE IntervalsToBg(_, _, _, _, _)
IntervalsToBg(it, start, channel, scores, i) ==
    IF i > Len(scores) THEN <<>>
    ELSE (IF i \in KeptRows(scores)
          THEN <<[key |-> it.rows[start + i].key, ch |-> channel,
                  sc |-> scores[i]]>>
          ELSE <<>>)
         \o IntervalsToBg(it, start, channel, scores, i + 1)

\* save_to_bedgraph: what it hands to df_to_bedGraph, and whether it does
SaveToBedgraph(batch_range, it, channel, rnd, threshold) ==
    LET scores == SliceScores(it, batch_range[1], batch_range[2], channel,
                              rnd, threshold)
    IN  [emit |-> AnyPositive(scores),
         recs |-> IF AnyPositive(scores)
                  THEN IntervalsToBg(it, batch_range[1], channel, scores, 1)
                  ELSE <<>>]

\* the ranges without the last end forced to the batch size
BatchRangesUnclipped(B, w) ==
    [i \in 1..CeilDiv(B, w) |-> <<(i - 1) * w, i * w>>]

\* tmp_batch_ranges: [i*w, (i+1)*w] for i in range(num_jobs), the last end
\* forced to the batch size
BatchRanges(B, w) ==
    LET n == CeilDiv(B, w)
    IN  [i \in 1..n |-> <<(i - 1) * w, IF i = n THEN B ELSE i * w>>]

\* a Python list index: in range or IndexError
InRange(list, i) == i >= 0 /\ i < Len(list)

\* the channels, output paths and roundings the writer sets up for a task
TaskChannels(t) ==
    CASE t = "regression" -> <<0>>
      [] t = "classification" -> <<1>>
      [] t = "both" -> <<0, 1>>

TaskOutfiles(t, prefix) ==
    CASE t = "regression" -> <<<<prefix, "track">>>>
      [] t = "classification" -> <<<<prefix, "peaks">>>>
      [] t = "both" -> <<<<prefix, "track">>, <<prefix, "peaks">>>>

TaskRounding(t, reg, cla) ==
    CASE t = "regression" -> <<reg>>
      [] t = "classification" -> <<cla>>
      [] t = "both" -> <<reg, cla>>

\* file-system helpers: a directory is a function from file number to content
AppendFile(dir, n, recs) ==
    IF n \in DOMAIN dir THEN [dir EXCEPT ![n] = @ \o recs]
    ELSE dir @@ (n :> recs)

\* a removal that leaves the file in place
RemoveNothing(dir, n) == dir

\* os.remove
RemoveFile(dir, n) == [m \in DOMAIN dir \ {n} |-> dir[m]]

\* combiner with the two files' roles swapped in the copy
CombinerPrepend(dir, f1, f2) ==
    RemoveFile([dir EXCEPT ![f1] = dir[f2] \o @], f2)

\* combiner(f1, f2): append f2's bytes to f1, delete f2
CombinerResult(dir, f1, f2) == RemoveFile([dir EXCEPT ![f1] = @ \o dir[f2]], f2)

\* every file paired with its neighbour in the listing
PairUpOverlap(files) ==
    {<<files[i], files[i + 1]>> : i \in 1..(Len(files) - 1)}

\* map_args = [(files[i*2], files[i*2+1]) for i in range(len(files)//2)]
PairUp(files) ==
    {<<files[2 * i - 1], files[2 * i]>> : i \in 1..(Len(files) \div 2)}


\* a check that accepts every intervals file
CheckNothing(intervals_df, sizes_df, len_data) == TRUE

\* check_intervals: the row count equals the dataset length, the interval
\* chromosomes are among the sizes chromosomes, and no interval joined to
\* a sizes row of its chromosome ends beyond that row's len
CheckIntervals(intervals_df, sizes_df, len_data) ==
    /\ len_data = Len(intervals_df)
    /\ {intervals_df[i].chrom : i \in DOMAIN intervals_df}
          \subseteq {sizes_df[j].chrom : j \in DOMAIN sizes_df}
    /\ \A i \in DOMAIN intervals_df : \A j \in DOMAIN sizes_df :
          intervals_df[i].chrom = sizes_df[j].chrom =>
              ~(intervals_df[i].end > sizes_df[j].len)

\* every file named on the command line handed to the workers at once
AllShards(files, i) == files

\* args.infer_files = [infile]
OneShard(files, i) == <<files[i + 1]>>

\* ------------------------------------------------------------------- state
VARIABLES
    args,        \* the parsed command line (main mutates distributed and
                 \* world_size; cli_distributed keeps the flag as parsed)
    ngpus,       \* torch.cuda.device_count()
    mpc,         \* main's position
    x,           \* main's index into the input files
    wk,          \* the worker started for each device index
    initpg,      \* ranks that called dist.init_process_group
    res_queue,   \* the manager queue of the current input file
    pushed,      \* number of ScoreBatches put on the current queue so far
    nextKey,     \* next interval row index the data loader hands out
    wpc,         \* the writer process's position
    werr,        \* the exception that ended the writer, if any
    batch_num, item, channels, outfiles, rounding,   \* writer locals
    chIdx,       \* position of the "for channel in channels" loop
    ranges,      \* tmp_batch_ranges
    pool,        \* pool_size of the open mp.Pool, 0 when there is none
    jobs,        \* save_to_bedgraph calls of the current starmap not yet run
    pairs,       \* combiner calls of the current starmap not yet run
    tmp,         \* temp_dir: channel -> (file number -> content)
    out,         \* exp_dir: output path -> content
    bigwigs,     \* output paths converted to bigWig
    taken,       \* the ScoreBatches the writer took, in order
    tr,          \* train_worker locals, per device index
    ckpts        \* save_model calls, in order

mainVars   == <<args, ngpus, mpc, x>>
workerVars == <<wk, initpg, pushed, nextKey>>
writerLocals == <<batch_num, item, channels, outfiles, rounding, chIdx,
                  ranges, pool, jobs, pairs>>
writerVars == <<wpc, werr, writerLocals, tmp, out, bigwigs, taken>>
trainVars  == <<tr, ckpts>>
vars == <<mainVars, workerVars, res_queue, writerVars, trainVars>>

Devices == 0..(MaxGpus - 1)

NoItem == [tag |-> "none"]
Done   == [tag |-> "done"]

\* per-row scores for channel 0 and channel 1, one value per position
RowKinds ==
    { << <<150, 0>>, <<75, 0>> >>,
      << <<0, 0>>,   <<0, 0>> >>,
      << <<25, 25>>, <<0, 25>> >> }

NoWorker == [pc |-> "none", fn |-> "none", rank |-> None, gpu |-> None]
NoTrain  == [epoch |-> 0, current_best |-> None, best_metric |-> None,
             new_best |-> FALSE]

\* ------------------------------------------------------------------- main
\* main keeping the distributed flag as parsed
OverrideNone(n, d) == d

\* args.distributed = False if ngpus_per_node == 1 else args.distributed
Override(n, d) == IF n = 1 THEN FALSE ELSE d

\* main, lines 536-545: the accelerator check and mode dispatch
MainCheckGpu ==
    /\ mpc = "start"
    /\ mpc' = IF ngpus = 0 THEN "failed"
              ELSE IF args.train THEN "train_setup"
              ELSE IF args.infer \/ args.eval THEN "file_begin"
              ELSE "end"
    /\ UNCHANGED <<args, ngpus, x, workerVars, res_queue, writerVars, trainVars>>

\* files = gather_files_from_cmdline(...): the input files, by number
Files == [i \in 1..args.nfiles |-> i - 1]

\* main, lines 579-617: per input file, check_intervals (inference only),
\* a fresh queue, and the writer process
MainStartWriter ==
    /\ mpc = "file_begin"
    /\ args' = IF args.infer
               THEN [args EXCEPT !.infer_files = OneShard(Files, x)]
               ELSE [args EXCEPT !.val_files = OneShard(Files, x)]
    /\ IF args.infer /\ ~CheckIntervals(args.intervals, args.sizes, args.ndata)
       THEN /\ mpc' = "failed"
            /\ UNCHANGED <<res_queue, writerVars>>
       ELSE /\ mpc' = "launch"
            /\ res_queue' = <<>>
            /\ wpc' = "start"
            /\ werr' = "none"
            /\ batch_num' = 0 /\ item' = NoItem
            /\ channels' = <<>> /\ outfiles' = <<>> /\ rounding' = <<>>
            /\ chIdx' = 0 /\ ranges' = <<>> /\ pool' = 0
            /\ jobs' = {} /\ pairs' = {}
            /\ tmp' = <<>>
            /\ taken' = <<>>
            /\ UNCHANGED <<out, bigwigs>>
    /\ pushed' = 0
    /\ nextKey' = 0
    /\ UNCHANGED <<ngpus, x, wk, initpg, trainVars>>

\* main, lines 620-633: the single-device override, then spawn one worker per
\* device or run the worker in-process on args.gpu
MainLaunch ==
    /\ mpc = "launch"
    /\ LET d  == Override(ngpus, args.distributed)
           fn == IF args.infer THEN "infer" ELSE "eval"
       IN  IF d
           THEN /\ args' = [args EXCEPT !.distributed = d, !.world_size = ngpus]
                /\ wk' = [g \in Devices |->
                            IF g < ngpus
                            THEN [pc |-> "start", fn |-> fn, rank |-> None,
                                  gpu |-> None]
                            ELSE NoWorker]
                /\ mpc' = "spawned"
           ELSE IF args.gpu >= ngpus     \* assert_device_available(args.gpu)
           THEN /\ args' = [args EXCEPT !.distributed = d]
                /\ mpc' = "failed"
                /\ UNCHANGED wk
           ELSE /\ args' = [args EXCEPT !.distributed = d, !.world_size = 1]
                /\ wk' = [g \in Devices |->
                            IF g = args.gpu
                            THEN [pc |-> "start", fn |-> fn, rank |-> None,
                                  gpu |-> None]
                            ELSE NoWorker]
                /\ mpc' = "inproc"
    /\ UNCHANGED <<ngpus, x, initpg, pushed, nextKey, res_queue, writerVars,
                   trainVars>>

\* every worker taking rank 0
WorkerRankZero(distributed, gpu) == 0

\* args.rank = gpu if args.distributed else 0
WorkerRank(distributed, gpu) == IF distributed THEN gpu ELSE 0

\* the process group joined by every worker
InitProcessGroupAlways(distributed, group, rank) == group \cup {rank}

\* if args.distributed: dist.init_process_group(..., rank=args.rank)
InitProcessGroup(distributed, group, rank) ==
    IF distributed THEN group \cup {rank} ELSE group

\* infer_worker, lines 293-318: rank and device binding, process group
InferWorkerInit(g) ==
    /\ wk[g].pc = "start" /\ wk[g].fn = "infer"
    /\ LET rank == WorkerRank(args.distributed, g)
       IN  /\ wk' = [wk EXCEPT ![g] = [@ EXCEPT !.pc = "run", !.rank = rank,
                                                !.gpu = g]]
           /\ initpg' = InitProcessGroup(args.distributed, initpg, rank)
    /\ UNCHANGED <<mainVars, pushed, nextKey, res_queue, writerVars, trainVars>>

\* infer (line 320): one forward pass puts (keys, batch) on the queue; the
\* rows handed out are bounded by the length of the dataset
InferPush(g) ==
    /\ wk[g].pc = "run" /\ wk[g].fn = "infer"
    /\ \E n \in 1..(args.ndata - nextKey) : \E f \in [1..n -> RowKinds] :
          res_queue' = Append(res_queue,
              [tag |-> "batch", id |-> pushed + 1, rank |-> wk[g].rank,
               files |-> args.infer_files,
               rows |-> [i \in 1..n |-> [key |-> nextKey + i - 1, s |-> f[i]]]])
          /\ nextKey' = nextKey + n
    /\ pushed' = pushed + 1
    /\ UNCHANGED <<mainVars, wk, initpg, writerVars, trainVars>>

\* infer returns: the worker is finished
InferReturn(g) ==
    /\ wk[g].pc = "run" /\ wk[g].fn = "infer"
    /\ wk' = [wk EXCEPT ![g].pc = "done"]
    /\ UNCHANGED <<mainVars, initpg, pushed, nextKey, res_queue, writerVars,
                   trainVars>>

\* eval_worker, lines 324-344: rank and device binding, process group
EvalWorkerInit(g) ==
    /\ wk[g].pc = "start" /\ wk[g].fn = "eval"
    /\ LET rank == WorkerRank(args.distributed, g)
       IN  /\ wk' = [wk EXCEPT ![g] = [@ EXCEPT !.pc = "run", !.rank = rank,
                                                !.gpu = g]]
           /\ initpg' = InitProcessGroup(args.distributed, initpg, rank)
    /\ UNCHANGED <<mainVars, pushed, nextKey, res_queue, writerVars, trainVars>>

\* evaluate (line 354) returns: the worker is finished
EvalReturn(g) ==
    /\ wk[g].pc = "run" /\ wk[g].fn = "eval"
    /\ wk' = [wk EXCEPT ![g].pc = "done"]
    /\ UNCHANGED <<mainVars, initpg, pushed, nextKey, res_queue, writerVars,
                   trainVars>>

\* main not waiting for the ranks before it goes on
WorkersNotJoined == TRUE

WorkersFinished == \A g \in Devices : wk[g].pc \in {"none", "done"}

\* main, line 637: after mp.spawn(join=True) or the in-process call returns
MainPutDone ==
    /\ mpc \in {"spawned", "inproc"}
    /\ WorkersFinished
    /\ res_queue' = Append(res_queue, Done)
    /\ mpc' = "join"
    /\ UNCHANGED <<args, ngpus, x, workerVars, writerVars, trainVars>>

\* main, line 639: write_proc.join(), then the next input file
MainJoin ==
    /\ mpc = "join"
    /\ wpc \in {"exited", "crashed"}
    /\ x' = x + 1
    /\ mpc' = IF x + 1 < args.nfiles THEN "file_begin" ELSE "end"
    /\ wk' = [g \in Devices |-> NoWorker]
    /\ UNCHANGED <<args, ngpus, initpg, pushed, nextKey, res_queue, writerVars,
                   trainVars>>

\* --------------------------------------------------------------- training
\* main, lines 547-572: the single-device override, then spawn one
\* train_worker per device or run train_worker in-process on args.gpu
MainTrainSetup ==
    /\ mpc = "train_setup"
    /\ LET d == Override(ngpus, args.distributed)
       IN  IF d
           THEN /\ args' = [args EXCEPT !.distributed = d, !.world_size = ngpus]
                /\ wk' = [g \in Devices |->
                            IF g < ngpus
                            THEN [pc |-> "start", fn |-> "train",
                                  rank |-> None, gpu |-> None]
                            ELSE NoWorker]
                /\ mpc' = "train_spawned"
           ELSE IF args.gpu >= ngpus     \* assert_device_available(args.gpu)
           THEN /\ args' = [args EXCEPT !.distributed = d]
                /\ mpc' = "failed"
                /\ UNCHANGED wk
           ELSE /\ args' = [args EXCEPT !.distributed = d, !.world_size = 1]
                /\ wk' = [g \in Devices |->
                            IF g = args.gpu
                            THEN [pc |-> "start", fn |-> "train",
                                  rank |-> None, gpu |-> None]
                            ELSE NoWorker]
                /\ mpc' = "train_inproc"
    /\ UNCHANGED <<ngpus, x, initpg, pushed, nextKey, res_queue, writerVars,
                   trainVars>>

\* for epoch in range(args.epochs): the loop goes on or the worker returns
LoopAt(e) == IF e < args.epochs THEN "train" ELSE "done"

\* train_worker, lines 205-254: rank and device binding, process group,
\* model and loaders, current_best = None
TrainWorkerInit(g) ==
    /\ wk[g].pc = "start" /\ wk[g].fn = "train"
    /\ LET rank == WorkerRank(args.distributed, g)
       IN  /\ wk' = [wk EXCEPT ![g] = [@ EXCEPT !.pc = LoopAt(0), !.rank = rank,
                                                !.gpu = g]]
           /\ initpg' = InitProcessGroup(args.distributed, initpg, rank)
    /\ tr' = [tr EXCEPT ![g] = NoTrain]
    /\ UNCHANGED <<mainVars, pushed, nextKey, res_queue, writerVars, ckpts>>

\* evaluating after every training pass
EvalAlways(e) == TRUE

\* if epoch % args.eval_freq == 0
EvalDue(e) == e % args.eval_freq = 0

\* train_worker, lines 256-263: one training pass, then evaluation if due
Train(g) ==
    /\ wk[g].pc = "train" /\ wk[g].fn = "train"
    /\ IF EvalDue(tr[g].epoch)
       THEN /\ wk' = [wk EXCEPT ![g].pc = "eval"]
            /\ UNCHANGED tr
       ELSE /\ wk' = [wk EXCEPT ![g].pc = LoopAt(tr[g].epoch + 1)]
            /\ tr' = [tr EXCEPT ![g].epoch = @ + 1]
    /\ UNCHANGED <<mainVars, initpg, pushed, nextKey, res_queue, writerVars,
                   ckpts>>

\* train_worker, lines 265-273: fresh metric objects, then evaluate fills
\* best_metric in place
Evaluate(g) ==
    /\ wk[g].pc = "eval" /\ wk[g].fn = "train"
    /\ \E m \in 0..MaxMetric :
          tr' = [tr EXCEPT ![g].best_metric = m]
    /\ wk' = [wk EXCEPT ![g].pc = "decide"]
    /\ UNCHANGED <<mainVars, initpg, pushed, nextKey, res_queue, writerVars,
                   ckpts>>

\* best_metric.better_than(current_best): higher is better, anything is
\* better than None
BetterThan(m, cur) == cur = None \/ m > cur

\* current_best taking every evaluated metric
NextBestAlways(new_best, cur, m) == m

\* if new_best: current_best = best_metric
NextBest(new_best, cur, m) == IF new_best THEN m ELSE cur

\* saving on the period alone
ShouldSavePeriodic(new_best, e) == e % args.save_freq = 0

\* if new_best or epoch % args.save_freq == 0
ShouldSave(new_best, e) == new_best \/ e % args.save_freq = 0

\* a checkpoint labelled with the epoch after the one evaluated
SaveModelAhead(g, e, new_best) ==
    [epoch |-> e + 1, is_best |-> new_best, rank |-> wk[g].rank]

\* save_model(model, exp_dir, checkpoint_fname, epoch=epoch, is_best=new_best)
SaveModel(g, e, new_best) ==
    [epoch |-> e, is_best |-> new_best, rank |-> wk[g].rank]

\* train_worker, lines 275-288: rank 0 compares, promotes and checkpoints;
\* then the next epoch
Checkpoint(g) ==
    /\ wk[g].pc = "decide" /\ wk[g].fn = "train"
    /\ LET e        == tr[g].epoch
           new_best == BetterThan(tr[g].best_metric, tr[g].current_best)
       IN  IF wk[g].rank = 0
           THEN /\ tr' = [tr EXCEPT
                            ![g].new_best = new_best,
                            ![g].current_best =
                                NextBest(new_best, @, tr[g].best_metric),
                            ![g].epoch = e + 1]
                /\ ckpts' = IF ShouldSave(new_best, e)
                            THEN Append(ckpts, SaveModel(g, e, new_best))
                            ELSE ckpts
           ELSE /\ tr' = [tr EXCEPT ![g].epoch = e + 1]
                /\ UNCHANGED ckpts
    /\ wk' = [wk EXCEPT ![g].pc = LoopAt(tr[g].epoch + 1)]
    /\ UNCHANGED <<mainVars, initpg, pushed, nextKey, res_queue, writerVars>>

\* main, lines 567-572: mp.spawn(join=True) or the in-process call returns
MainTrainJoin ==
    /\ mpc \in {"train_spawned", "train_inproc"}
    /\ WorkersFinished
    /\ mpc' = IF args.infer \/ args.eval THEN "file_begin" ELSE "end"
    /\ wk' = [g \in Devices |-> NoWorker]
    /\ UNCHANGED <<args, ngpus, x, initpg, pushed, nextKey, res_queue,
                   writerVars, trainVars>>

\* ----------------------------------------------------------------- writer
Channel == channels[chIdx]

\* a writer that goes on whatever infer is
WriterRefusesNever(infer) == FALSE

\* if not infer: assert False
WriterRefuses(infer) == ~infer

\* writer, lines 413-442: the infer assertion, channels/outfiles/rounding by
\* task, the temp directory with one sub-directory per channel
WriterSetup ==
    /\ wpc = "start"
    /\ IF WriterRefuses(args.infer)
       THEN /\ wpc' = "crashed" /\ werr' = "AssertionError"
            /\ UNCHANGED <<channels, outfiles, rounding, tmp>>
       ELSE /\ wpc' = "poll" /\ werr' = werr
            /\ channels' = TaskChannels(args.task)
            /\ outfiles' = TaskOutfiles(args.task, x)
            /\ rounding' = TaskRounding(args.task, args.reg_rounding,
                                        args.cla_rounding)
            /\ tmp' = [c \in {TaskChannels(args.task)[i] :
                                 i \in 1..Len(TaskChannels(args.task))} |-> <<>>]
    /\ UNCHANGED <<mainVars, workerVars, res_queue, batch_num, item, chIdx,
                   ranges, pool, jobs, pairs, out, bigwigs, taken, trainVars>>

\* keys, batch = item
Keys(it) == [i \in 1..Len(it.rows) |-> it.rows[i].key]

\* num_workers == -1: min(num_jobs, cpu_count); otherwise num_workers
PoolSize(num_workers, num_jobs) ==
    IF num_workers = -1 THEN Min(num_jobs, NumCpus) ELSE num_workers

\* writer, lines 443-474: one non-empty poll of the queue: the sentinel ends
\* the drain loop, a ScoreBatch goes to the no-pool or the pooled path
WriterTake ==
    /\ wpc = "poll"
    /\ res_queue # <<>>
    /\ batch_num' = batch_num + 1
    /\ item' = Head(res_queue)
    /\ res_queue' = Tail(res_queue)
    /\ chIdx' = 1
    /\ IF Head(res_queue) = Done
       THEN /\ wpc' = IF args.num_workers # 0 THEN "move" ELSE "cleanup"
            /\ UNCHANGED <<ranges, pool, taken>>
       ELSE /\ taken' = Append(taken, [id |-> Head(res_queue).id,
                                       keys |-> Keys(Head(res_queue)),
                                       rows |-> Head(res_queue).rows])
            /\ IF args.num_workers = 0
               THEN /\ wpc' = "nopool"
                    /\ UNCHANGED <<ranges, pool>>
               ELSE /\ wpc' = "dispatch"
                    /\ ranges' = BatchRanges(Len(Head(res_queue).rows),
                                             args.batches_per_worker)
                    /\ pool' = PoolSize(args.num_workers,
                                        CeilDiv(Len(Head(res_queue).rows),
                                                args.batches_per_worker))
    /\ UNCHANGED <<mainVars, workerVars, werr, channels, outfiles, rounding,
                   jobs, pairs, tmp, out, bigwigs, trainVars>>

\* the record written by the no-pool path for the current channel
NoPoolRecords ==
    SaveToBedgraph(<<0, Len(item.rows)>>, item, Channel,
                   rounding[Channel + 1], args.infer_threshold)

\* the loop "for channel in channels" moves on, or ends at `after`
NextChannel(again, after) ==
    IF chIdx < Len(channels)
    THEN chIdx' = chIdx + 1 /\ wpc' = again
    ELSE chIdx' = chIdx /\ wpc' = after

\* writer, lines 454-458: open outfiles[channel] for append and convert the
\* whole batch in the draining process
NoPoolWrite ==
    /\ wpc = "nopool"
    /\ IF ~InRange(outfiles, Channel)
       THEN /\ wpc' = "crashed" /\ werr' = "IndexError"
            /\ UNCHANGED <<chIdx, out>>
       ELSE /\ out' = AppendFile(out, outfiles[Channel + 1], NoPoolRecords.recs)
            /\ NextChannel("nopool", "poll")
            /\ werr' = werr
    /\ UNCHANGED <<mainVars, workerVars, res_queue, batch_num, item, channels,
                   outfiles, rounding, ranges, pool, jobs, pairs, tmp, bigwigs,
                   taken, trainVars>>

\* writer, lines 475-487: build map_args for the channel and start the
\* starmap of save_to_bedgraph
PoolDispatch ==
    /\ wpc = "dispatch"
    /\ IF ~InRange(rounding, Channel)
       THEN /\ wpc' = "crashed" /\ werr' = "IndexError"
            /\ UNCHANGED jobs
       ELSE IF args.infer_threshold # None    \* args is no name in writer
       THEN /\ wpc' = "crashed" /\ werr' = "NameError"
            /\ UNCHANGED jobs
       ELSE /\ wpc' = "starmap" /\ werr' = werr
            /\ jobs' = 1..Len(ranges)
    /\ UNCHANGED <<mainVars, workerVars, res_queue, batch_num, item, channels,
                   outfiles, rounding, chIdx, ranges, pool, pairs, tmp, out,
                   bigwigs, taken, trainVars>>

\* temp_files[num] = "{0:05}".format(num + batch_num)
TempFile(j) == (j - 1) + batch_num

\* what sub-worker j leaves in the channel's directory
SubWorkerResult(dir, j) ==
    LET r == SaveToBedgraph(ranges[j], item, Channel, rounding[Channel + 1],
                            None)
    IN  IF r.emit THEN AppendFile(dir, TempFile(j), r.recs) ELSE dir

\* one pool process runs save_to_bedgraph for range j (lines 487, 360-397)
SubWorker(j) ==
    /\ wpc = "starmap"
    /\ j \in jobs
    /\ tmp' = [tmp EXCEPT ![Channel] = SubWorkerResult(@, j)]
    /\ jobs' = jobs \ {j}
    /\ UNCHANGED <<mainVars, workerVars, res_queue, wpc, werr, batch_num, item,
                   channels, outfiles, rounding, chIdx, ranges, pool, pairs,
                   out, bigwigs, taken, trainVars>>

\* a starmap handing control back while calls are still to run
StarmapReturnEarly ==
    /\ wpc = "starmap"
    /\ wpc' = "combine"
    /\ UNCHANGED <<mainVars, workerVars, res_queue, werr, writerLocals, tmp,
                   out, bigwigs, taken, trainVars>>

\* pool.starmap(save_to_bedgraph, ...) returns when every call has run
StarmapReturn ==
    /\ wpc = "starmap"
    /\ jobs = {}
    /\ wpc' = "combine"
    /\ UNCHANGED <<mainVars, workerVars, res_queue, werr, writerLocals, tmp,
                   out, bigwigs, taken, trainVars>>

\* files = sorted(glob.glob(temp_dir/channel/*))
ListFiles == SortedByName(DOMAIN tmp[Channel])

\* writer, lines 489-494: list and sort; one file ends the loop, otherwise
\* pair the files up and start the starmap of combiner
CombineList ==
    /\ wpc = "combine"
    /\ IF Len(ListFiles) = 1
       THEN /\ NextChannel("dispatch", "close")
            /\ UNCHANGED pairs
       ELSE /\ pairs' = PairUp(ListFiles)
            /\ wpc' = "combining"
            /\ UNCHANGED chIdx
    /\ UNCHANGED <<mainVars, workerVars, res_queue, werr, batch_num, item,
                   channels, outfiles, rounding, ranges, pool, jobs, tmp, out,
                   bigwigs, taken, trainVars>>

\* one pool process runs combiner(f1, f2) (lines 516-521)
Combiner(p) ==
    /\ wpc = "combining"
    /\ p \in pairs
    /\ tmp' = [tmp EXCEPT ![Channel] = CombinerResult(@, p[1], p[2])]
    /\ pairs' = pairs \ {p}
    /\ UNCHANGED <<mainVars, workerVars, res_queue, wpc, werr, batch_num, item,
                   channels, outfiles, rounding, chIdx, ranges, pool, jobs,
                   out, bigwigs, taken, trainVars>>

\* pool.starmap(combiner, ...) returns; back to the listing
CombineReturn ==
    /\ wpc = "combining"
    /\ pairs = {}
    /\ wpc' = "combine"
    /\ UNCHANGED <<mainVars, workerVars, res_queue, werr, writerLocals, tmp,
                   out, bigwigs, taken, trainVars>>

\* writer, lines 496-497: pool.close(); pool.join()
PoolClose ==
    /\ wpc = "close"
    /\ pool' = 0
    /\ wpc' = "poll"
    /\ UNCHANGED <<mainVars, workerVars, res_queue, werr, batch_num, item,
                   channels, outfiles, rounding, chIdx, ranges, jobs, pairs,
                   tmp, out, bigwigs, taken, trainVars>>

\* writer, lines 499-505: after the sentinel, the pooled path moves each
\* channel's single remaining file to its output path
WriterMove ==
    /\ wpc = "move"
    /\ LET files == DOMAIN tmp[Channel]
       IN  IF Cardinality(files) # 1
           THEN /\ wpc' = "crashed" /\ werr' = "AssertionError"
                /\ UNCHANGED <<chIdx, tmp, out>>
           ELSE IF ~InRange(outfiles, Channel)
           THEN /\ wpc' = "crashed" /\ werr' = "IndexError"
                /\ UNCHANGED <<chIdx, tmp, out>>
           ELSE LET f == CHOOSE n \in files : TRUE
                IN  /\ out' = [p \in DOMAIN out \cup {outfiles[Channel + 1]} |->
                                 IF p = outfiles[Channel + 1]
                                 THEN tmp[Channel][f] ELSE out[p]]
                    /\ tmp' = [tmp EXCEPT ![Channel] = RemoveFile(@, f)]
                    /\ NextChannel("move", "cleanup")
                    /\ werr' = werr
    /\ UNCHANGED <<mainVars, workerVars, res_queue, batch_num, item, channels,
                   outfiles, rounding, ranges, pool, jobs, pairs, bigwigs,
                   taken, trainVars>>

\* writer, lines 507-513: remove the temp directory, then convert each
\* channel's output to bigWig when asked to
WriterCleanup ==
    /\ wpc = "cleanup"
    /\ tmp' = <<>>
    /\ IF ~args.gen_bigwig
       THEN /\ wpc' = "exited" /\ UNCHANGED <<werr, bigwigs>>
       ELSE IF \E i \in 1..Len(channels) : ~InRange(outfiles, channels[i])
       THEN /\ wpc' = "crashed" /\ werr' = "IndexError"
            /\ UNCHANGED bigwigs
       ELSE IF \E i \in 1..Len(channels) :
                  outfiles[channels[i] + 1] \notin DOMAIN out
       THEN /\ wpc' = "crashed" /\ werr' = "FileNotFoundError"
            /\ UNCHANGED bigwigs
       ELSE /\ wpc' = "exited" /\ werr' = werr
            /\ bigwigs' = bigwigs \cup
                   {outfiles[channels[i] + 1] : i \in 1..Len(channels)}
    /\ UNCHANGED <<mainVars, workerVars, res_queue, writerLocals, out, taken,
                   trainVars>>

\* ---------------------------------------------------------- specifications
Tasks == {"regression", "classification", "both"}

\* (reg_rounding, cla_rounding) pairs of the runs explored
Roundings == {<<0, 1>>, <<None, None>>}

\* classification threshold, in hundredths
Thresholds == {None, 50}

IdleWriter ==
    /\ wpc = "none" /\ werr = "none"
    /\ batch_num = 0 /\ item = NoItem
    /\ channels = <<>> /\ outfiles = <<>> /\ rounding = <<>>
    /\ chIdx = 0 /\ ranges = <<>> /\ pool = 0 /\ jobs = {} /\ pairs = {}
    /\ tmp = <<>> /\ taken = <<>>

NoWorkers ==
    /\ wk = [g \in Devices |-> NoWorker]
    /\ initpg = {}
    /\ pushed = 0
    /\ nextKey = 0
    /\ tr = [g \in Devices |-> NoTrain]
    /\ ckpts = <<>>

\* the sizes file of the runs explored, and an intervals file of n rows that
\* check_intervals accepts for a dataset of n rows
SizesFile == <<[chrom |-> "chr1", len |-> MaxData + 1]>>

GoodIntervals(n) ==
    [i \in 1..n |-> [chrom |-> "chr1", start |-> i - 1, end |-> i]]

DefaultArgs ==
    [train |-> FALSE, infer |-> FALSE, eval |-> FALSE,
     task |-> "regression", num_workers |-> 0, infer_threshold |-> None,
     reg_rounding |-> None, cla_rounding |-> None, batches_per_worker |-> 1,
     gen_bigwig |-> FALSE, gpu |-> 0, distributed |-> FALSE,
     cli_distributed |-> FALSE,
     world_size |-> None, epochs |-> 1, eval_freq |-> 1, save_freq |-> 1,
     nfiles |-> 1, infer_files |-> <<0>>, val_files |-> <<0>>,
     ndata |-> 0, intervals |-> <<>>, sizes |-> SizesFile]

\* inference runs on one device: every task and pool setting; the range size
\* varies in the pooled path, the threshold in the no-pool path (a threshold
\* ends the pooled path at its first dispatch)
InferArgs ==
    {a \in {[DefaultArgs EXCEPT !.infer = TRUE, !.distributed = TRUE,
                         !.cli_distributed = TRUE,
                         !.ndata = MaxData,
                         !.intervals = GoodIntervals(MaxData),
                         !.task = t, !.num_workers = nw,
                         !.infer_threshold = th,
                         !.reg_rounding = r[1], !.cla_rounding = r[2],
                         !.batches_per_worker = w, !.gen_bigwig = bw] :
                t \in Tasks, nw \in {0, -1, 1}, th \in Thresholds,
                r \in Roundings, w \in 1..2, bw \in BOOLEAN} :
        /\ a.num_workers = 0 => a.batches_per_worker = 1
        /\ a.num_workers = 1 /\ a.infer_threshold # None =>
               a.batches_per_worker = 1 /\ a.reg_rounding = None
        /\ a.num_workers = -1 =>
               /\ a.infer_threshold = None
               /\ a.reg_rounding = 0
               /\ a.batches_per_worker = 2
        /\ a.gen_bigwig => a.task = "both" /\ a.reg_rounding = 0
                             /\ a.infer_threshold = None
                             /\ a.batches_per_worker = 1}

Init ==
    /\ args \in InferArgs
    /\ ngpus = 1
    /\ mpc = "start" /\ x = 0
    /\ res_queue = <<>>
    /\ out = <<>> /\ bigwigs = {}
    /\ IdleWriter
    /\ NoWorkers

NextInfer ==
    \/ MainCheckGpu
    \/ MainStartWriter
    \/ MainLaunch
    \/ \E g \in Devices : InferWorkerInit(g)
    \/ \E g \in Devices : InferPush(g)
    \/ \E g \in Devices : InferReturn(g)
    \/ MainPutDone
    \/ MainJoin
    \/ WriterSetup
    \/ WriterTake
    \/ NoPoolWrite
    \/ PoolDispatch
    \/ \E j \in jobs : SubWorker(j)
    \/ StarmapReturn
    \/ CombineList
    \/ \E p \in pairs : Combiner(p)
    \/ CombineReturn
    \/ PoolClose
    \/ WriterMove
    \/ WriterCleanup

Spec == Init /\ [][NextInfer]_vars

\* The combine loop on its own: the writer stands at the listing (line 490)
\* of channel 0's directory, which holds any set of partial files left by the
\* sub-workers: numbers 1..MaxFiles (the first batch), or the survivor 00001
\* with the files of batch 99999, whose names pass from five to six digits.
LateNames == {1, 99999, 100000, 100001}

\* a partial file holds the record of the range that wrote it
PartialFile(n) == <<[key |-> n, ch |-> 0, sc |-> <<ScoreUnit>>]>>

InitCombine ==
    /\ args = [DefaultArgs EXCEPT !.infer = TRUE, !.num_workers = 1]
    /\ ngpus = 1
    /\ mpc = "inproc" /\ x = 0
    /\ wk = [g \in Devices |->
               IF g = 0 THEN [pc |-> "run", fn |-> "infer", rank |-> 0, gpu |-> 0]
               ELSE NoWorker]
    /\ initpg = {} /\ pushed = 0 /\ nextKey = 0
    /\ tr = [g \in Devices |-> NoTrain] /\ ckpts = <<>>
    /\ res_queue = <<>>
    /\ out = <<>> /\ bigwigs = {}
    /\ wpc = "combine" /\ werr = "none"
    /\ item = NoItem
    /\ channels = TaskChannels("regression")
    /\ outfiles = TaskOutfiles("regression", 0)
    /\ rounding = TaskRounding("regression", None, None)
    /\ chIdx = 1 /\ ranges = <<>> /\ pool = 1 /\ jobs = {} /\ pairs = {}
    /\ taken = <<>>
    /\ \E names \in (SUBSET (1..MaxFiles)) \cup (SUBSET LateNames) :
          /\ tmp = [c \in {0} |-> [n \in names |-> PartialFile(n)]]
          /\ batch_num = IF names \subseteq 1..MaxFiles THEN 1 ELSE 99999

NextCombine ==
    \/ CombineList
    \/ \E p \in pairs : Combiner(p)
    \/ CombineReturn

SpecCombine == InitCombine /\ [][NextCombine]_vars

\* training runs: every device count, distributed or not, every schedule
TrainArgs ==
    {[DefaultArgs EXCEPT !.train = TRUE, !.distributed = d,
                         !.cli_distributed = d, !.epochs = n,
                         !.eval_freq = ef, !.save_freq = sf] :
        d \in BOOLEAN, n \in 1..MaxEpochs, ef \in 1..MaxFreq, sf \in 1..MaxFreq}

InitTrain ==
    /\ args \in TrainArgs
    /\ ngpus \in 1..MaxGpus
    /\ mpc = "start" /\ x = 0
    /\ res_queue = <<>>
    /\ out = <<>> /\ bigwigs = {}
    /\ IdleWriter
    /\ NoWorkers

NextTrain ==
    \/ MainCheckGpu
    \/ MainTrainSetup
    \/ \E g \in Devices : TrainWorkerInit(g)
    \/ \E g \in Devices : Train(g)
    \/ \E g \in Devices : Evaluate(g)
    \/ \E g \in Devices : Checkpoint(g)
    \/ MainTrainJoin

SpecTrain == InitTrain /\ [][NextTrain]_vars

\* whole runs of main, train or infer, on every host: any device count,
\* distributed requested or not, args.gpu present or not
MainArgs ==
    {[DefaultArgs EXCEPT !.train = TRUE, !.distributed = d,
                         !.cli_distributed = d, !.gpu = g, !.epochs = 2] :
        d \in BOOLEAN, g \in 0..1}
    \cup
    {[DefaultArgs EXCEPT !.infer = TRUE, !.distributed = d,
                         !.cli_distributed = d, !.gpu = g,
                         !.ndata = MainData,
                         !.intervals = GoodIntervals(MainData),
                         !.task = "both",
                         !.num_workers = nw] :
        d \in BOOLEAN, g \in 0..1, nw \in {0, 1}}

InitMain ==
    /\ args \in MainArgs
    /\ ngpus \in 0..MaxGpus
    /\ mpc = "start" /\ x = 0
    /\ res_queue = <<>>
    /\ out = <<>> /\ bigwigs = {}
    /\ IdleWriter
    /\ NoWorkers

NextMain == NextTrain \/ NextInfer

SpecMain == InitMain /\ [][NextMain]_vars

\* Each process is scheduled by the operating system: main, every worker and
\* the writer (with its pool) keep taking steps while they can.
MainNext ==
    \/ MainCheckGpu \/ MainStartWriter \/ MainLaunch \/ MainPutDone \/ MainJoin

WorkerNext(g) == InferWorkerInit(g) \/ InferPush(g) \/ InferReturn(g)

WriterNext ==
    \/ WriterSetup \/ WriterTake \/ NoPoolWrite \/ PoolDispatch
    \/ (\E j \in jobs : SubWorker(j)) \/ StarmapReturn
    \/ CombineList \/ (\E p \in pairs : Combiner(p)) \/ CombineReturn
    \/ PoolClose \/ WriterMove \/ WriterCleanup

\* the inference runs of Init on a dataset of MainData rows
FairArgs ==
    {[a EXCEPT !.ndata = MainData, !.intervals = GoodIntervals(MainData)] :
        a \in InferArgs}

InitFair ==
    /\ args \in FairArgs
    /\ ngpus = 1
    /\ mpc = "start" /\ x = 0
    /\ res_queue = <<>>
    /\ out = <<>> /\ bigwigs = {}
    /\ IdleWriter
    /\ NoWorkers

FairSpec ==
    /\ InitFair /\ [][NextInfer]_vars
    /\ WF_vars(MainNext)
    /\ \A g \in Devices : WF_vars(WorkerNext(g))
    /\ WF_vars(WriterNext)

\* The pooled writer late in a long run: it stands between two queue items
\* (line 443) having drained every batch up to the one before the last whose
\* file names fit NameWidth digits; each channel's directory holds the
\* survivor of the earlier merges, and the worker still has MainData rows to
\* push.  pushed and taken count from this state on.
LastShortName == Pow10(NameWidth) - 1

Survivor(c) == <<[key |-> 0, ch |-> c, sc |-> <<ScoreUnit, ScoreUnit>>]>>

LateArgs ==
    {[DefaultArgs EXCEPT !.infer = TRUE, !.task = t, !.num_workers = nw,
                         !.batches_per_worker = w,
                         !.ndata = LastShortName - 1 + MainData] :
        t \in {"regression", "both"}, nw \in {-1, 1}, w \in 1..2}

InitLate ==
    /\ args \in LateArgs
    /\ ngpus = 1
    /\ mpc = "inproc" /\ x = 0
    /\ wk = [g \in Devices |->
               IF g = 0 THEN [pc |-> "run", fn |-> "infer", rank |-> 0, gpu |-> 0]
               ELSE NoWorker]
    /\ initpg = {} /\ pushed = 0 /\ nextKey = LastShortName - 1
    /\ tr = [g \in Devices |-> NoTrain] /\ ckpts = <<>>
    /\ res_queue = <<>>
    /\ out = <<>> /\ bigwigs = {}
    /\ wpc = "poll" /\ werr = "none"
    /\ batch_num = LastShortName - 1
    /\ item = NoItem
    /\ channels = TaskChannels(args.task)
    /\ outfiles = TaskOutfiles(args.task, 0)
    /\ rounding = TaskRounding(args.task, None, None)
    /\ chIdx = 1 /\ ranges = <<>> /\ pool = 0 /\ jobs = {} /\ pairs = {}
    /\ taken = <<>>
    /\ tmp = [c \in {TaskChannels(args.task)[i] :
                        i \in 1..Len(TaskChannels(args.task))} |->
                 [n \in {1} |-> Survivor(c)]]

NextLate ==
    \/ \E g \in Devices : InferPush(g)
    \/ \E g \in Devices : InferReturn(g)
    \/ MainPutDone
    \/ MainJoin
    \/ WriterTake
    \/ PoolDispatch
    \/ \E j \in jobs : SubWorker(j)
    \/ StarmapReturn
    \/ CombineList
    \/ \E p \in pairs : Combiner(p)
    \/ CombineReturn
    \/ PoolClose
    \/ WriterMove
    \/ WriterCleanup

SpecLate == InitLate /\ [][NextLate]_vars

\* Runs of main over several input files, for inference or for evaluation
\* alone, on every host, with intervals files that check_intervals accepts
\* or rejects: a row too many, a chromosome the sizes file lacks, an end
\* beyond the chromosome.  Each file holds one row; the writer converts in
\* its own process.
MaxInputs == 2

IntervalsFiles ==
    { GoodIntervals(1),
      GoodIntervals(2),
      <<[chrom |-> "chr2", start |-> 0, end |-> 1]>>,
      <<[chrom |-> "chr1", start |-> 0, end |-> MaxData + 2]>> }

FilesArgs ==
    {[DefaultArgs EXCEPT !.infer = i, !.eval = ~i, !.distributed = d,
                         !.cli_distributed = d, !.nfiles = n,
                         !.infer_files = [k \in 1..n |-> k - 1],
                         !.val_files = [k \in 1..n |-> k - 1],
                         !.ndata = 1, !.intervals = iv] :
        i \in BOOLEAN, d \in BOOLEAN, n \in 1..MaxInputs,
        iv \in IntervalsFiles}

InitFiles ==
    /\ args \in FilesArgs
    /\ ngpus \in 0..MaxGpus
    /\ mpc = "start" /\ x = 0
    /\ res_queue = <<>>
    /\ out = <<>> /\ bigwigs = {}
    /\ IdleWriter
    /\ NoWorkers

NextFiles ==
    \/ MainCheckGpu
    \/ MainStartWriter
    \/ MainLaunch
    \/ \E g \in Devices : InferWorkerInit(g)
    \/ \E g \in Devices : InferPush(g)
    \/ \E g \in Devices : InferReturn(g)
    \/ \E g \in Devices : EvalWorkerInit(g)
    \/ \E g \in Devices : EvalReturn(g)
    \/ MainPutDone
    \/ MainJoin
    \/ WriterSetup
    \/ WriterTake
    \/ NoPoolWrite
    \/ WriterCleanup

SpecFiles == InitFiles /\ [][NextFiles]_vars

\* Fatal errors after the writer was started.  A worker may raise at any
\* point; mp.spawn then terminates the other ranks and raises in main, and
\* an in-process worker's exception is main's own.  The exception, like the
\* failed assert_device_available, leaves main (lines 625-633) without the
\* sentinel being put.  As the interpreter exits, the manager made at line
\* 604 is shut down before the child processes are joined, so the queue is
\* gone and the writer's next res_queue.empty() (line 443) raises.
WorkerRaise(g) ==
    /\ wk[g].pc \in {"start", "run"} /\ wk[g].fn \in {"infer", "eval"}
    /\ wk' = [wk EXCEPT ![g].pc = "raised"]
    /\ UNCHANGED <<mainVars, initpg, pushed, nextKey, res_queue, writerVars,
                   trainVars>>

MainWorkerFailed ==
    /\ mpc \in {"spawned", "inproc"}
    /\ \E g \in Devices : wk[g].pc = "raised"
    /\ mpc' = "failed"
    /\ wk' = [g \in Devices |->
                IF wk[g].pc \in {"start", "run"}
                THEN [wk[g] EXCEPT !.pc = "killed"] ELSE wk[g]]
    /\ UNCHANGED <<args, ngpus, x, initpg, pushed, nextKey, res_queue,
                   writerVars, trainVars>>

MainAbort ==
    /\ mpc = "failed"
    /\ mpc' = "aborted"
    /\ res_queue' = <<>>
    /\ UNCHANGED <<args, ngpus, x, workerVars, writerVars, trainVars>>

WriterQueueError ==
    /\ wpc = "poll"
    /\ mpc = "aborted"
    /\ wpc' = "crashed" /\ werr' = "ConnectionError"
    /\ UNCHANGED <<mainVars, workerVars, res_queue, writerLocals, tmp, out,
                   bigwigs, taken, trainVars>>

AbortArgs ==
    {[DefaultArgs EXCEPT !.infer = TRUE, !.distributed = d,
                         !.cli_distributed = d, !.gpu = g,
                         !.ndata = MainData,
                         !.intervals = GoodIntervals(MainData),
                         !.num_workers = nw] :
        d \in BOOLEAN, g \in 0..1, nw \in {0, 1}}
    \cup
    {[DefaultArgs EXCEPT !.eval = TRUE, !.distributed = d,
                         !.cli_distributed = d, !.gpu = g] :
        d \in BOOLEAN, g \in 0..1}

InitAbort ==
    /\ args \in AbortArgs
    /\ ngpus \in 1..MaxGpus
    /\ mpc = "start" /\ x = 0
    /\ res_queue = <<>>
    /\ out = <<>> /\ bigwigs = {}
    /\ IdleWriter
    /\ NoWorkers

NextAbort ==
    \/ NextInfer
    \/ \E g \in Devices : EvalWorkerInit(g)
    \/ \E g \in Devices : EvalReturn(g)
    \/ \E g \in Devices : WorkerRaise(g)
    \/ MainWorkerFailed
    \/ MainAbort
    \/ WriterQueueError

MainAbortNext == MainNext \/ MainWorkerFailed \/ MainAbort

WorkerAbortNext(g) == WorkerNext(g) \/ EvalWorkerInit(g) \/ EvalReturn(g)

WriterAbortNext == WriterNext \/ WriterQueueError

FairAbort ==
    /\ InitAbort /\ [][NextAbort]_vars
    /\ WF_vars(MainAbortNext)
    /\ \A g \in Devices : WF_vars(WorkerAbortNext(g))
    /\ WF_vars(WriterAbortNext)

\* the runs of SpecFiles with every process scheduled again and again
WriterFilesNext == WriterSetup \/ WriterTake \/ NoPoolWrite \/ WriterCleanup

FairFiles ==
    /\ InitFiles /\ [][NextFiles]_vars
    /\ WF_vars(MainNext)
    /\ \A g \in Devices : WF_vars(WorkerAbortNext(g))
    /\ WF_vars(WriterFilesNext)

\* ---------------------------------------------------------- signed scores
\* Inference whose network output may be negative at a position: the rows of
\* RowKinds and a row whose channel 0 scores are 0.5 and -0.7.
SignedRowKinds == RowKinds \cup { << <<50, -70>>, <<0, 0>> >> }

\* infer (line 320): one forward pass puts (keys, batch) on the queue
InferPushSigned(g) ==
    /\ wk[g].pc = "run" /\ wk[g].fn = "infer"
    /\ \E n \in 1..(args.ndata - nextKey) : \E f \in [1..n -> SignedRowKinds] :
          res_queue' = Append(res_queue,
              [tag |-> "batch", id |-> pushed + 1, rank |-> wk[g].rank,
               files |-> args.infer_files,
               rows |-> [i \in 1..n |-> [key |-> nextKey + i - 1, s |-> f[i]]]])
          /\ nextKey' = nextKey + n
    /\ pushed' = pushed + 1
    /\ UNCHANGED <<mainVars, wk, initpg, writerVars, trainVars>>

SignedArgs ==
    {[DefaultArgs EXCEPT !.infer = TRUE, !.ndata = MainData,
                         !.intervals = GoodIntervals(MainData),
                         !.task = t, !.num_workers = nw] :
        t \in {"regression", "both"}, nw \in {0, 1}}

InitSigned ==
    /\ args \in SignedArgs
    /\ ngpus = 1
    /\ mpc = "start" /\ x = 0
    /\ res_queue = <<>>
    /\ out = <<>> /\ bigwigs = {}
    /\ IdleWriter
    /\ NoWorkers

NextSigned == NextInfer \/ \E g \in Devices : InferPushSigned(g)

SpecSigned == InitSigned /\ [][NextSigned]_vars

\* ------------------------------------------------------- training failures
\* train() (line 258) or evaluate() (line 269) raises in device g's
\* train_worker: the exception leaves the epoch loop before lines 275-288,
\* with current_best as the last comparison left it.
TrainRaise(g) ==
    /\ wk[g].fn = "train" /\ wk[g].pc \in {"train", "eval"}
    /\ wk' = [wk EXCEPT ![g].pc = "raised"]
    /\ UNCHANGED <<mainVars, initpg, pushed, nextKey, res_queue, writerVars,
                   trainVars>>

\* main, lines 567-572: mp.spawn terminates the other ranks and raises; an
\* in-process worker's exception is main's own
MainTrainFailed ==
    /\ mpc \in {"train_spawned", "train_inproc"}
    /\ \E g \in Devices : wk[g].pc = "raised"
    /\ mpc' = "failed"
    /\ wk' = [g \in Devices |->
                IF wk[g].pc \in {"start", "train", "eval", "decide"}
                THEN [wk[g] EXCEPT !.pc = "killed"] ELSE wk[g]]
    /\ UNCHANGED <<args, ngpus, x, initpg, pushed, nextKey, res_queue,
                   writerVars, trainVars>>

NextTrainFail ==
    \/ NextTrain
    \/ \E g \in Devices : TrainRaise(g)
    \/ MainTrainFailed

SpecTrainFail == InitTrain /\ [][NextTrainFail]_vars

\* Inference on one device over a dataset one row longer than Init's, with
\* one-row ranges: room for a first batch of three ranges and a batch after.
OrderArgs ==
    {[DefaultArgs EXCEPT !.infer = TRUE,
                         !.ndata = MaxData + 1,
                         !.intervals = GoodIntervals(MaxData + 1),
                         !.num_workers = nw] :
        nw \in {0, 1}}

InitOrder ==
    /\ args \in OrderArgs
    /\ ngpus = 1
    /\ mpc = "start" /\ x = 0
    /\ res_queue = <<>>
    /\ out = <<>> /\ bigwigs = {}
    /\ IdleWriter
    /\ NoWorkers

SpecOrder == InitOrder /\ [][NextInfer]_vars

\* ------------------------------------------------------- get_intervals.py
\* The interval script is a program of its own: args is its parsed command
\* line (sizes holds the rows read_sizes returns, chrom and size), mpc the
\* position of its main, out the BED files it writes under the prefix.
MaxChromLen == 5
MaxIntervalSize == 2

\* range(0, stop, step) as a list
RangeTo(stop, step) ==
    [k \in 1..(IF stop <= 0 THEN 0 ELSE CeilDiv(stop, step)) |-> (k - 1) * step]

\* lines 86-91: the intervals of one row of sizes
ChromIntervals(row, intervalsize, shift) ==
    LET starts == RangeTo(row.size - (intervalsize + 1), shift)
    IN  [k \in DOMAIN starts |->
            [chrom |-> row.chrom, start |-> starts[k],
             end |-> starts[k] + intervalsize]]

\* lines 85-91: the loop over the rows of sizes, appending
RECURSIVE AllIntervals(_, _, _, _)
AllIntervals(sizes, i, intervalsize, shift) ==
    IF i > Len(sizes) THEN <<>>
    ELSE ChromIntervals(sizes[i], intervalsize, shift)
         \o AllIntervals(sizes, i + 1, intervalsize, shift)

\* intervals.merge(sizes, on='chrom'): each interval joined to every row of
\* sizes of its chromosome, in the order of the intervals
RECURSIVE MergeOnChrom(_, _)
MergeOnChrom(intervals, sizes) ==
    IF intervals = <<>> THEN <<>>
    ELSE LET rows == SelectSeq(sizes,
                               LAMBDA r : r.chrom = Head(intervals).chrom)
         IN  [j \in DOMAIN rows |->
                 [chrom |-> Head(intervals).chrom,
                  start |-> Head(intervals).start,
                  end |-> Head(intervals).end, size |-> rows[j].size]]
             \o MergeOnChrom(Tail(intervals), sizes)

\* get_tiling_intervals, lines 78-97, for a sizes table with a row at least
\* (with none, the merge of the column-less frame raises KeyError)
GetTilingIntervals(sizes, intervalsize, shift) ==
    LET sh     == IF shift = None THEN intervalsize ELSE shift
        merged == MergeOnChrom(AllIntervals(sizes, 1, intervalsize, sh), sizes)
        kept   == SelectSeq(merged, LAMBDA r : r.end < r.size)
    IN  [k \in DOMAIN kept |->
            [chrom |-> kept[k].chrom, start |-> kept[k].start,
             end |-> kept[k].end]]

\* the BED file written under the prefix
WriteBed(kind, intervals) ==
    [p \in DOMAIN out \cup {<<args.prefix, kind>>} |->
        IF p = <<args.prefix, kind>> THEN intervals ELSE out[p]]

\* main, lines 138-146: --wg, one file for all chromosomes
TileGenome ==
    /\ mpc = "tile" /\ args.wg
    /\ out' = WriteBed("genome_intervals",
                       GetTilingIntervals(args.sizes, args.intervalsize,
                                          args.shift))
    /\ mpc' = "end"
    /\ UNCHANGED <<args, ngpus, x, workerVars, res_queue, wpc, werr,
                   writerLocals, tmp, bigwigs, taken, trainVars>>

\* the rows of sizes main hands to the training, validation and holdout calls
NoChrom == "none"

TrainSizes ==
    SelectSeq(args.sizes,
              LAMBDA r : r.chrom # args.val
                         /\ (args.holdout # NoChrom => r.chrom # args.holdout))

ValSizes == SelectSeq(args.sizes, LAMBDA r : r.chrom = args.val)

HoldoutSizes == SelectSeq(args.sizes, LAMBDA r : r.chrom = args.holdout)

\* main, lines 152-176: training intervals, without --peakfile
TileTrain ==
    /\ mpc = "tile" /\ ~args.wg
    /\ IF TrainSizes = <<>>
       THEN mpc' = "failed" /\ UNCHANGED out
       ELSE /\ out' = WriteBed("training_intervals",
                               GetTilingIntervals(TrainSizes,
                                                  args.intervalsize,
                                                  args.shift))
            /\ mpc' = "tile_val"
    /\ UNCHANGED <<args, ngpus, x, workerVars, res_queue, wpc, werr,
                   writerLocals, tmp, bigwigs, taken, trainVars>>

\* main, lines 180-186: validation intervals
TileVal ==
    /\ mpc = "tile_val"
    /\ IF ValSizes = <<>>
       THEN mpc' = "failed" /\ UNCHANGED out
       ELSE /\ out' = WriteBed("val_intervals",
                               GetTilingIntervals(ValSizes, args.intervalsize,
                                                  None))
            /\ mpc' = IF args.holdout # NoChrom THEN "tile_holdout" ELSE "end"
    /\ UNCHANGED <<args, ngpus, x, workerVars, res_queue, wpc, werr,
                   writerLocals, tmp, bigwigs, taken, trainVars>>

\* main, lines 189-197: holdout intervals
TileHoldout ==
    /\ mpc = "tile_holdout"
    /\ IF HoldoutSizes = <<>>
       THEN mpc' = "failed" /\ UNCHANGED out
       ELSE /\ out' = WriteBed("holdout_intervals",
                               GetTilingIntervals(HoldoutSizes,
                                                  args.intervalsize, None))
            /\ mpc' = "end"
    /\ UNCHANGED <<args, ngpus, x, workerVars, res_queue, wpc, werr,
                   writerLocals, tmp, bigwigs, taken, trainVars>>

ChromSizes ==
    {<<[chrom |-> "chr1", size |-> a]>> : a \in 1..MaxChromLen}
    \cup {<<[chrom |-> "chr1", size |-> a], [chrom |-> "chr2", size |-> b]>> :
             a \in 1..MaxChromLen, b \in 1..MaxChromLen}

TileArgs ==
    [sizes : ChromSizes, intervalsize : 1..MaxIntervalSize,
     shift : {None} \cup 1..MaxIntervalSize, prefix : {0}, wg : BOOLEAN,
     val : {"chr1", "chr2"}, holdout : {NoChrom, "chr2"}, peakfile : {None}]

InitTile ==
    /\ args \in TileArgs
    /\ ngpus = 0
    /\ mpc = "tile" /\ x = 0
    /\ res_queue = <<>>
    /\ out = <<>> /\ bigwigs = {}
    /\ IdleWriter
    /\ NoWorkers

NextTile == TileGenome \/ TileTrain \/ TileVal \/ TileHoldout

SpecTile == InitTile /\ [][NextTile]_vars

\* ------------------------------------------------------------------ claims
\* the bytes of a directory, in sorted-name order
FlatOf(dir) == ConcatAll(SortedByName(DOMAIN dir), dir)

Flat == FlatOf(tmp[Channel])

InCombineLoop == wpc \in {"combine", "combining"}

EvenInput == Len(Flat) >= 2 /\ Len(Flat) % 2 = 0

\* C1: from any even number N >= 2 of partial files (one record each), every
\* step of the combine loop keeps the sorted-name concatenation of the
\* directory unchanged, and the loop ends with exactly one file, which
\* therefore holds the concatenation of all N inputs in sorted-name order,
\* every other file deleted.
C1_CombineReduce ==
    /\ [][InCombineLoop /\ EvenInput => FlatOf(tmp'[Channel]) = Flat]_vars
    /\ [](wpc = "close" /\ EvenInput => Cardinality(DOMAIN tmp[Channel]) = 1)

\* C1 witness: the loop has ended on four input files, two of them with
\* six-digit names
C1_Witness ==
    /\ wpc = "close"
    /\ Cardinality(DOMAIN tmp[Channel]) = 1
    /\ Len(Flat) = 4
    /\ batch_num = 99999

QueuedIds ==
    {res_queue[i].id : i \in {j \in 1..Len(res_queue) :
                                 res_queue[j].tag = "batch"}}

TakenIds == {taken[i].id : i \in 1..Len(taken)}

\* the writer has left the drain loop on the sentinel
StoppedOnDone == wpc \notin {"none", "start", "poll"} /\ item = Done

C3_WriterTerminates == <>(wpc \in {"exited", "crashed"})

\* the writer is converting the current batch for a channel whose scores,
\* rounded and thresholded, are all <= 0
SparseChannel ==
    /\ wpc \in {"nopool", "dispatch", "starmap", "combine", "combining"}
    /\ InRange(rounding, Channel)
    /\ ~AnyPositive(SliceScores(item, 0, Len(item.rows), Channel,
                                rounding[Channel + 1],
                                IF wpc = "nopool" THEN args.infer_threshold
                                ELSE None))

\* C4: while the writer handles a batch and channel whose scores are all
\* <= 0 it writes no record (the temp directory and the content of every
\* output file stay as they were), and it goes on from that channel to the
\* next channel or queue item.
C4_SparseNoOp ==
    /\ [][SparseChannel =>
            /\ tmp' = tmp
            /\ \A q \in DOMAIN out' :
                  out'[q] = IF q \in DOMAIN out THEN out[q] ELSE <<>>]_vars
    /\ (SparseChannel ~> ~SparseChannel)

\* the positions of a row's record in a file
KeyAt(content, k) == {p \in DOMAIN content : content[p].key = k}

\* the records of the rows ks stand in the file in the rows' order
InOrder(content, ks) ==
    \A i, j \in DOMAIN ks :
        i < j => \A p \in KeyAt(content, ks[i]), q \in KeyAt(content, ks[j]) :
                    p < q

\* C5: for any two rows of one ScoreBatch, the earlier row's record stands
\* before the later row's record in every file that holds both: in each
\* partial and merged file of the temp directories at every moment of the
\* merge (whatever the order of the sub-workers and combiner calls) and in
\* the output files.
C5_WithinBatchOrder ==
    \A t \in DOMAIN taken :
        /\ \A c \in DOMAIN tmp : \A f \in DOMAIN tmp[c] :
               InOrder(tmp[c][f], taken[t].keys)
        /\ \A p \in DOMAIN out : InOrder(out[p], taken[t].keys)

\* the channels a task writes, and the output file and rounding of each
ActiveChannels ==
    CASE args.task = "regression" -> {0}
      [] args.task = "classification" -> {1}
      [] args.task = "both" -> {0, 1}

PathKind(c) == IF c = 0 THEN "track" ELSE "peaks"

ChannelRounding(c) == IF c = 0 THEN args.reg_rounding ELSE args.cla_rounding

\* the scores a row's record carries for channel c
Expected(row, c) ==
    ThresholdScores(RoundScores(row.s[c + 1], ChannelRounding(c)),
                    IF args.num_workers = 0 THEN args.infer_threshold ELSE None,
                    c)

\* the records written so far for channel c: in its output file, and in the
\* pooled path in its temp directory
WrittenFor(c) ==
    UNION {{out[p][i] : i \in DOMAIN out[p]} :
              p \in {q \in DOMAIN out : q[2] = PathKind(c)}}
    \cup (IF c \in DOMAIN tmp
          THEN UNION {{tmp[c][f][i] : i \in DOMAIN tmp[c][f]} :
                         f \in DOMAIN tmp[c]}
          ELSE {})

\* the writer is done with the current ScoreBatch
BatchHandled == item # NoItem /\ item # Done /\ wpc \in {"poll", "crashed"}

\* C6: every record in the '.track.bedGraph' file and in channel 0's temp
\* directory is a channel 0 record, every record in the '.peaks.bedGraph'
\* file and in channel 1's temp directory is a channel 1 record; a record
\* carries the scores rounded as configured for its channel; and once the
\* writer is done with a batch, each row with a positive score in a channel
\* of the task has its record in that channel's file.
C6_OneFilePerChannel ==
    /\ \A c \in {0, 1} : \A r \in WrittenFor(c) : r.ch = c
    /\ item # NoItem /\ item # Done =>
          \A c \in {0, 1} : \A r \in WrittenFor(c) :
              \A i \in DOMAIN item.rows :
                  item.rows[i].key = r.key => r.sc = Expected(item.rows[i], c)
    /\ BatchHandled =>
          \A c \in ActiveChannels : \A i \in DOMAIN item.rows :
              SumSeq(Expected(item.rows[i], c)) > 0 =>
                  \E r \in WrittenFor(c) : r.key = item.rows[i].key

\* main has passed the override and the launch
Launched == mpc \in {"spawned", "inproc", "train_spawned", "train_inproc",
                     "join", "failed", "end"}

\* C7: on a host with one device, when distributed mode was requested, once
\* main has launched: distributed is false, nothing was spawned, no rank
\* called init_process_group, and unless main stopped on an unavailable
\* args.gpu, world_size is 1 and the only worker is the one main runs
\* in-process on args.gpu, with rank 0 once it has set its rank.
C7_SingleDeviceOverride ==
    ngpus = 1 /\ args.cli_distributed /\ Launched =>
        /\ ~args.distributed
        /\ mpc \notin {"spawned", "train_spawned"}
        /\ initpg = {}
        /\ \A g \in Devices :
              wk[g].pc # "none" => g = args.gpu /\ wk[g].rank \in {None, 0}
        /\ mpc \in {"inproc", "train_inproc"} =>
              /\ args.world_size = 1
              /\ wk[args.gpu].pc # "none"

C7_Witness ==
    /\ ngpus = 1 /\ args.cli_distributed
    /\ mpc = "inproc"
    /\ wk[args.gpu].pc = "run" /\ wk[args.gpu].rank = 0
    /\ args.world_size = 1
    /\ pushed >= 1

\* rank 0's train_worker takes the step that compares and checkpoints
Decides(g) == wk[g].pc = "decide" /\ wk[g].rank = 0 /\ wk'[g].pc # "decide"

\* C8: when rank 0 has evaluated at an epoch: if the new metric is better
\* than current_best, current_best becomes the new metric and a checkpoint
\* of that epoch with is_best true is written; if it is not, current_best
\* stays and the only checkpoint that may be written for the epoch has
\* is_best false.
C8_BestPromotion ==
    [][\A g \in Devices : Decides(g) =>
          LET e == tr[g].epoch
              m == tr[g].best_metric
              cur == tr[g].current_best
          IN  IF BetterThan(m, cur)
              THEN /\ tr'[g].current_best = m
                   /\ ckpts' = Append(ckpts, [epoch |-> e, is_best |-> TRUE,
                                              rank |-> 0])
              ELSE /\ tr'[g].current_best = cur
                   /\ \/ ckpts' = ckpts
                      \/ ckpts' = Append(ckpts, [epoch |-> e,
                                                 is_best |-> FALSE,
                                                 rank |-> 0])]_vars

C8_Witness ==
    \E g \in Devices :
        /\ wk[g].rank = 0 /\ wk[g].pc = "done"
        /\ tr[g].current_best # None
        /\ tr[g].best_metric < tr[g].current_best
        /\ \E i \in DOMAIN ckpts : ckpts[i].is_best /\ ckpts[i].epoch >= 1

\* C9: when rank 0's training loop has ended, every epoch e in [0, epochs)
\* with e mod save_freq = 0 has a checkpoint.
C9_PeriodicCheckpoint ==
    \A g \in Devices :
        wk[g].fn = "train" /\ wk[g].pc = "done" /\ wk[g].rank = 0 =>
            \A e \in 0..(args.epochs - 1) :
                e % args.save_freq = 0 =>
                    \E i \in DOMAIN ckpts : ckpts[i].epoch = e

\* C10: every change of current_best puts a metric in place that is better
\* than the value it replaces; current_best never goes back to None.
C10_BestMonotone ==
    [][\A g \in Devices :
          /\ wk[g].pc \in {"train", "eval", "decide"}
          /\ tr'[g].current_best # tr[g].current_best
          =>
              /\ tr'[g].current_best # None
              /\ BetterThan(tr'[g].current_best, tr[g].current_best)]_vars

C10_Witness ==
    \E g \in Devices :
        /\ wk[g].rank = 0
        /\ tr[g].current_best >= 1
        /\ Cardinality({i \in DOMAIN ckpts : ckpts[i].is_best}) >= 2
        /\ \E i \in DOMAIN ckpts : ~ckpts[i].is_best

\* C11: a writer process exists only in runs where inference output is
\* requested: whenever main has started a writer, args.infer is set.
C11_WriterOnlyForInference == wpc # "none" => args.infer

\* the batches waiting in the queue and the one the writer holds
InFlight ==
    {res_queue[i] : i \in {k \in DOMAIN res_queue : res_queue[k] # Done}}
    \cup (IF item # NoItem /\ item # Done THEN {item} ELSE {})

\* main starts a writer process
WriterStarts == wpc' = "start" /\ wpc # "start"

\* C12: while a writer of an inference run exists, args.infer_files holds
\* exactly one shard and every batch fed to that writer was read from that
\* shard alone; main starts a writer only when the writer of the file before
\* is finished, for the file x it has come to, with an empty queue and the
\* batch count at zero.
C12_OneShardPerWriter ==
    /\ [](wpc # "none" /\ args.infer =>
            /\ Len(args.infer_files) = 1
            /\ \A b \in InFlight : b.files = args.infer_files)
    /\ [][WriterStarts /\ args.infer =>
            /\ mpc = "file_begin"
            /\ wpc \in {"none", "exited", "crashed"}
            /\ args'.infer_files = <<x>>
            /\ res_queue' = <<>>
            /\ batch_num' = 0]_vars

C12_Witness ==
    /\ args.infer /\ args.nfiles = 2 /\ x = 1
    /\ wpc = "nopool"
    /\ item.files = <<1>>
    /\ <<0, "track">> \in DOMAIN out

\* the three conditions of check_intervals, on the files of the run
IntervalsFit ==
    /\ Len(args.intervals) = args.ndata
    /\ \A i \in DOMAIN args.intervals :
          /\ \E j \in DOMAIN args.sizes :
                args.sizes[j].chrom = args.intervals[i].chrom
          /\ \A j \in DOMAIN args.sizes :
                args.sizes[j].chrom = args.intervals[i].chrom =>
                    args.intervals[i].end <= args.sizes[j].len

\* a rank process is started
RankStarts == \E g \in Devices : wk[g].pc # "start" /\ wk'[g].pc = "start"

\* C13: on a host without a device no writer and no rank process is ever
\* started; in an inference run a writer or a rank process is started only
\* when the intervals file has as many rows as the dataset, names only
\* chromosomes of the sizes file, and has no end beyond its chromosome.
C13_ConfigErrorsFirst ==
    /\ [](ngpus = 0 => wpc = "none" /\ \A g \in Devices : wk[g].pc = "none")
    /\ [][(WriterStarts \/ RankStarts) /\ args.infer => IntervalsFit]_vars

C13_Witness ==
    /\ args.infer /\ args.nfiles = 2 /\ x = 1
    /\ IntervalsFit
    /\ wpc = "poll"
    /\ \E g \in Devices : wk[g].pc = "run"

\* C14: when main has failed after it started a writer (the requested
\* device is absent, or a worker raised), the writer process eventually ends.
C14_FatalErrorEndsRun ==
    (mpc = "failed" /\ wpc # "none") ~> (wpc \in {"exited", "crashed"})

\* C15: in the pooled path, whenever the writer stands after the sentinel
\* at a channel's "move" step, that channel's temp directory holds exactly
\* one file; and when the writer has exited, every channel of the task has
\* its output file and the temp directory is gone.
C15_SingleSurvivor ==
    /\ wpc = "move" => Cardinality(DOMAIN tmp[Channel]) = 1
    /\ wpc = "exited" /\ args.num_workers # 0 =>
          /\ tmp = <<>>
          /\ \A i \in DOMAIN channels :
                \E p \in DOMAIN out : p[2] = PathKind(channels[i])

\* C16: in the pooled path no sub-worker still to run has a file name that
\* exists in the channel's temp directory (another sub-worker's file, or the
\* survivor of an earlier batch), the sub-workers of one starmap have
\* pairwise different names, and the pairs of one merge pass share no file.
C16_ExclusivePartialFiles ==
    /\ wpc = "starmap" =>
          /\ \A j \in jobs : TempFile(j) \notin DOMAIN tmp[Channel]
          /\ \A j, k \in DOMAIN ranges : j # k => TempFile(j) # TempFile(k)
    /\ wpc = "combining" =>
          \A p, q \in pairs :
              /\ p[1] # p[2]
              /\ p # q => {p[1], p[2]} \cap {q[1], q[2]} = {}

\* C17: while the writer lists or merges a channel's files no conversion
\* sub-worker of the batch is still to run; a merge pass is started only
\* when no combiner call of the pass before is still to run; and the writer
\* takes an item from the queue only when no pool is open and no sub-worker
\* or combiner call is pending.
C17_BatchIsolation ==
    /\ [](InCombineLoop => jobs = {})
    /\ [][wpc = "combine" /\ wpc' = "combining" => pairs = {} /\ jobs = {}]_vars
    /\ [][batch_num' # batch_num /\ wpc = "poll" =>
            pool = 0 /\ jobs = {} /\ pairs = {}]_vars

C17_Witness ==
    /\ batch_num = 2 /\ item # Done
    /\ wpc = "combining" /\ pairs # {}
    /\ pool >= 1
    /\ Len(ranges) >= 2

\* the writer pairs up the files it has listed
PairingStep == wpc = "combine" /\ wpc' = "combining"

Ascending(content) ==
    \A p, q \in DOMAIN content : p < q => content[p].key < content[q].key

\* C19: with one worker pushing the batches in interval-table order, every
\* output file holds its records in interval-table order: the records of
\* an earlier batch before those of a later batch, the records of a batch in
\* row order.
C19_CoordinateSorted == \A p \in DOMAIN out : Ascending(out[p])

\* the records the no-pool path writes to channel c's file for the first n
\* batches taken: each batch converted whole, appended in the order taken
RECURSIVE NoPoolFile(_, _)
NoPoolFile(c, n) ==
    IF n = 0 THEN <<>>
    ELSE NoPoolFile(c, n - 1)
         \o SaveToBedgraph(<<0, Len(taken[n].rows)>>, taken[n], c,
                           ChannelRounding(c), args.infer_threshold).recs

\* the no-pool writer ends with an error on the batches taken: for task
\* 'classification' at its first batch, and at the bigWig conversion when
\* an output path is missing from outfiles or no file was written
NoPoolFails ==
    \/ args.task = "classification" /\ taken # <<>>
    \/ args.gen_bigwig /\ (args.task = "classification" \/ taken = <<>>)

\* the content of channel c's output file, empty when there is none
FileOf(c) ==
    IF \E p \in DOMAIN out : p[2] = PathKind(c)
    THEN out[CHOOSE p \in DOMAIN out : p[2] = PathKind(c)]
    ELSE <<>>

\* C20: a writer run with a pool ends as the no-pool writer does on the same
\* batches: it stops on an error only where the no-pool writer does, and
\* when it has exited each channel's output file holds the records the
\* no-pool writer writes, rounded and thresholded alike.
C20_PooledRefinesNoPool ==
    args.num_workers # 0 =>
        /\ wpc = "crashed" => NoPoolFails
        /\ wpc = "exited" =>
              /\ ~NoPoolFails
              /\ \A c \in ActiveChannels :
                    FileOf(c) = NoPoolFile(c, Len(taken))

\* a step of device g's train_worker inside its epoch loop
InLoop(g) ==
    /\ wk[g].fn = "train" /\ wk'[g].fn = "train"
    /\ wk[g].pc # "start"
    /\ <<wk'[g], tr'[g]>> # <<wk[g], tr[g]>>

\* C21: each train_worker makes its training passes at epochs 0, 1, ...,
\* epochs - 1, one pass each and in that order, and is done after the last;
\* the pass of epoch e is followed by an evaluation exactly when
\* e mod eval_freq = 0, on every rank alike.
C21_TrainEvalSchedule ==
    /\ [](\A g \in Devices : wk[g].fn = "train" =>
            /\ wk[g].pc = "train" => tr[g].epoch \in 0..(args.epochs - 1)
            /\ wk[g].pc \in {"eval", "decide"} =>
                  /\ tr[g].epoch \in 0..(args.epochs - 1)
                  /\ tr[g].epoch % args.eval_freq = 0
            /\ wk[g].pc = "done" => tr[g].epoch = args.epochs)
    /\ [][\A g \in Devices :
            /\ wk[g].fn = "train" /\ wk[g].pc = "start" /\ wk'[g].pc # "start"
               => tr'[g].epoch = 0
            /\ InLoop(g) =>
                 LET e == tr[g].epoch
                 IN  /\ tr'[g].epoch \in {e, e + 1}
                     /\ wk[g].pc = "train" =>
                           IF e % args.eval_freq = 0
                           THEN wk'[g].pc = "eval" /\ tr'[g].epoch = e
                           ELSE tr'[g].epoch = e + 1
                     /\ wk'[g].pc = "eval" => wk[g].pc = "train"
                     /\ wk'[g].pc = "train" => tr'[g].epoch = e + 1
                     /\ wk[g].pc = "done" => FALSE]_vars

C21_Witness ==
    /\ args.eval_freq = 2 /\ args.epochs = MaxEpochs
    /\ \E g, h \in Devices :
          /\ wk[g].rank = 0 /\ wk[h].rank = 1
          /\ wk[g].pc = "done"
          /\ wk[h].pc = "eval" /\ tr[h].epoch = 2

\* C22: a checkpoint for epoch e is written only by a step of rank 0 that
\* follows its training pass and its evaluation of epoch e; when rank 0's
\* training pass or evaluation raises, no checkpoint is written for that
\* epoch, then or later, and current_best keeps its value.
C22_NoCheckpointFromFailedEpoch ==
    /\ [](\A g \in Devices :
            wk[g].fn = "train" /\ wk[g].rank = 0 /\ wk[g].pc = "raised" =>
                \A i \in DOMAIN ckpts : ckpts[i].epoch # tr[g].epoch)
    /\ [][/\ ckpts' # ckpts =>
               \E g \in Devices :
                  /\ wk[g].fn = "train" /\ wk[g].rank = 0
                  /\ wk[g].pc = "decide" /\ wk'[g].pc # "decide"
                  /\ \E is_best \in BOOLEAN :
                        ckpts' = Append(ckpts, [epoch |-> tr[g].epoch,
                                                is_best |-> is_best,
                                                rank |-> 0])
          /\ \A g \in Devices :
               wk[g].rank = 0 /\ wk[g].fn = "train"
               /\ (wk[g].pc = "raised" \/ wk'[g].pc = "raised") =>
                   /\ tr'[g].current_best = tr[g].current_best
                   /\ ckpts' = ckpts]_vars

C22_Witness ==
    \E g \in Devices :
        /\ wk[g].fn = "train" /\ wk[g].rank = 0 /\ wk[g].pc = "raised"
        /\ tr[g].epoch >= 1
        /\ tr[g].current_best # None
        /\ \E i \in DOMAIN ckpts : ckpts[i].epoch = tr[g].epoch - 1

\* C23: in a distributed training run only rank 0 changes current_best and
\* only rank 0 calls save_model: a worker of any other rank keeps
\* current_best as it was set at the start, every checkpoint is written by
\* rank 0, one process at most holds rank 0, and no epoch has two
\* checkpoints.
C23_RankZeroExclusive ==
    /\ [](args.train /\ args.distributed =>
            /\ \A i \in DOMAIN ckpts : ckpts[i].rank = 0
            /\ \A i, j \in DOMAIN ckpts :
                  i # j => ckpts[i].epoch # ckpts[j].epoch
            /\ Cardinality({g \in Devices : wk[g].fn = "train"
                                            /\ wk[g].rank = 0}) <= 1
            /\ \A g \in Devices :
                  wk[g].fn = "train" /\ wk[g].pc # "start" /\ wk[g].rank # 0
                  => tr[g].current_best = None)
    /\ [][args.train /\ args.distributed /\ ckpts' # ckpts =>
            \E g \in Devices : wk[g].rank = 0 /\ wk'[g] # wk[g]]_vars

C23_Witness ==
    /\ args.train /\ args.distributed
    /\ Len(ckpts) >= 2
    /\ \E g, h \in Devices :
          /\ wk[g].rank = 0 /\ wk[h].rank = 1
          /\ wk[g].pc = "done" /\ wk[h].pc = "done"
          /\ tr[g].current_best # None
          /\ tr[h].best_metric # None

\* the device indices for which a worker exists
Started == {g \in Devices : wk[g].pc # "none"}

\* the workers that have bound their rank and device
Bound == {g \in Started : wk[g].pc # "start"}

\* C24: in distributed mode with n devices there is one worker per device
\* index 0..n-1, the worker of index g has rank g and device g, and
\* world_size is n; otherwise there is one worker, of rank 0, on the
\* configured device, and world_size is 1; a worker joins the process group
\* exactly when distributed is true.
C24_RankAssignment ==
    /\ [](/\ mpc \in {"spawned", "train_spawned"} =>
               /\ args.distributed
               /\ args.world_size = ngpus
               /\ Started = 0..(ngpus - 1)
               /\ \A g \in Bound : wk[g].rank = g /\ wk[g].gpu = g
               /\ Bound \subseteq initpg
          /\ mpc \in {"inproc", "train_inproc"} =>
               /\ ~args.distributed
               /\ args.world_size = 1
               /\ Started = {args.gpu}
               /\ \A g \in Bound : wk[g].rank = 0 /\ wk[g].gpu = args.gpu)
    /\ [][\A g \in Devices :
            wk[g].pc = "start" /\ wk'[g].pc # "start" =>
                initpg' = IF args.distributed THEN initpg \cup {g}
                          ELSE initpg]_vars

C24_Witness ==
    /\ mpc = "spawned" /\ ngpus = MaxGpus
    /\ Bound = 0..(MaxGpus - 1)
    /\ initpg = 0..(MaxGpus - 1)

\* the writer holds the row ranges of the batch it took on the pooled path
HasRanges == args.num_workers # 0 /\ item.tag = "batch" /\ wpc # "poll"

\* C25: the row ranges of a batch of B >= 1 rows with batches_per_worker
\* w >= 1 are ceil(B/w) non-empty half-open ranges, each starting where the
\* one before ends, from 0 to B: every row lies in exactly one range, and
\* every range but the last has w rows.
C25_RangePartition ==
    HasRanges =>
        LET B == Len(item.rows)
            w == args.batches_per_worker
            n == Len(ranges)
        IN  /\ n >= 1 /\ (n - 1) * w < B /\ B <= n * w
            /\ ranges[1][1] = 0 /\ ranges[n][2] = B
            /\ \A i \in 1..n : ranges[i][1] < ranges[i][2]
            /\ \A i \in 1..(n - 1) :
                  /\ ranges[i][2] = ranges[i + 1][1]
                  /\ ranges[i][2] - ranges[i][1] = w
            /\ \A k \in 0..(B - 1) :
                  Cardinality({i \in 1..n : ranges[i][1] <= k
                                            /\ k < ranges[i][2]}) = 1

C25_Witness ==
    /\ HasRanges /\ wpc = "starmap"
    /\ Len(item.rows) = MaxData /\ args.batches_per_worker = 2
    /\ Len(ranges) = CeilDiv(MaxData, 2)
    /\ jobs = {}

\* the directory holds an odd number of records, one per input file
OddInput == Len(Flat) % 2 = 1

\* the files of the directory that no pending combiner call names
Unpaired == {n \in DOMAIN tmp[Channel] : \A p \in pairs : n # p[1] /\ n # p[2]}

\* C26: from any odd number N >= 1 of partial files, no step of the combine
\* loop drops or duplicates a byte: the sorted-name concatenation of the
\* directory never changes, the last file of an odd listing is in no pair
\* and a file in no pair is left as it is by the pass, and the loop ends
\* with one file.
C26_OddCountsKeepData ==
    /\ [][InCombineLoop /\ OddInput =>
            /\ FlatOf(tmp'[Channel]) = Flat
            /\ wpc = "combine" /\ Len(ListFiles) % 2 = 1 =>
                  \A p \in pairs' :
                      ListFiles[Len(ListFiles)] \notin {p[1], p[2]}
            /\ wpc = "combining" =>
                  \A n \in Unpaired :
                      /\ n \in DOMAIN tmp'[Channel]
                      /\ tmp'[Channel][n] = tmp[Channel][n]]_vars
    /\ [](wpc = "close" /\ OddInput => Cardinality(DOMAIN tmp[Channel]) = 1)

\* C26 witness: the loop has ended on five input files
C26_Witness ==
    /\ wpc = "close"
    /\ Cardinality(DOMAIN tmp[Channel]) = 1
    /\ Len(Flat) = 5
    /\ batch_num = 1

\* C27: a writer started with infer false ends at once on the assertion,
\* with no channel set up, no temp directory, nothing taken from the queue
\* and no output file; main, once its workers are launched, still puts the
\* sentinel and its join on the writer returns, so main moves past the
\* input file.
C27_WriterWithoutInferFails ==
    /\ [](~args.infer /\ wpc \notin {"none", "start"} =>
            /\ wpc = "crashed" /\ werr = "AssertionError"
            /\ channels = <<>> /\ tmp = <<>>
            /\ batch_num = 0 /\ item = NoItem /\ taken = <<>>
            /\ out = <<>> /\ bigwigs = {})
    /\ [][~args.infer /\ x' # x =>
            res_queue # <<>> /\ res_queue[Len(res_queue)] = Done]_vars
    /\ \A k \in 0..(MaxInputs - 1) :
          (~args.infer /\ mpc \in {"spawned", "inproc"} /\ x = k)
              ~> (x = k + 1)

C27_Witness ==
    /\ args.eval /\ ~args.infer
    /\ wpc = "crashed" /\ werr = "AssertionError"
    /\ mpc = "end" /\ x = MaxInputs
    /\ res_queue = <<Done>>

\* the row has a score > 0 at some position of channel c
HasPositive(row, c) ==
    \E p \in DOMAIN Expected(row, c) : Expected(row, c)[p] > 0

\* C28: when the no-pool writer has exited, of every batch it took that has
\* a score > 0 in a channel, each row with a score > 0 at some position has
\* its record in that channel's file, and each row whose scores are all
\* <= 0 has none.
C28_NoPositiveRowDropped ==
    args.num_workers = 0 /\ wpc = "exited" =>
        \A c \in ActiveChannels : \A t \in DOMAIN taken :
            (\E i \in DOMAIN taken[t].rows : HasPositive(taken[t].rows[i], c))
            => \A i \in DOMAIN taken[t].rows :
                  HasPositive(taken[t].rows[i], c)
                  <=> \E k \in DOMAIN FileOf(c) :
                         FileOf(c)[k].key = taken[t].rows[i].key

\* the (start, end) pairs a BED file holds for a chromosome
PairsOf(bed, chrom) ==
    {<<bed[k].start, bed[k].end>> :
        k \in {j \in DOMAIN bed : bed[j].chrom = chrom}}

\* the intervals (k*s, k*s + S) that end inside a chromosome of length L
Fitting(L, S, s) == {<<k * s, k * s + S>> : k \in {j \in 0..L : j * s + S <= L}}

\* C29: the whole-genome file holds, for every chromosome of length L, the
\* intervals (k*s, k*s + S), k = 0, 1, ..., with end <= L, all of them and
\* no other, s being S when no shift is given.
C29_TilingIntervals ==
    \A p \in DOMAIN out : p[2] = "genome_intervals" =>
        \A i \in DOMAIN args.sizes :
            PairsOf(out[p], args.sizes[i].chrom)
            = Fitting(args.sizes[i].size, args.intervalsize,
                      IF args.shift = None THEN args.intervalsize
                      ELSE args.shift)

====
